---- MODULE Spec2Model ----
(***************************************************************************)
(* A model of the stroke triage package: the convergence-driven loop of    *)
(* StrokeModel.run_new and its helper _check_convergence, the hospital     *)
(* views and set_times of StrokeModel (src/stroke/stroke_model.py), and    *)
(* the Severity classes RACE and NIHSS with break_up_ais_patients          *)
(* (src/stroke/severity.py).                                               *)
(*                                                                         *)
(* Numbers.  Python floats are modelled by exact arithmetic: a frequency   *)
(* table is a common denominator with integer numerators, a severity score *)
(* is a reduced fraction, a state probability is an integer numerator over *)
(* a fixed denominator, kept in base-10000 limbs.  Rounding of IEEE        *)
(* doubles is not modelled.                                                *)
(***************************************************************************)
EXTENDS Integers, Sequences, FiniteSets

VARIABLES
    \* ---- StrokeModel.run_new: the locals of one call
    pc,              \* "idle" | "loop" | "break" | "done"
    arg_n,           \* the caller's n argument (never read by run_new)
    inflated,        \* how often costs.Costs.inflate(2016) ran in this call
    c,               \* the index the for loop hands out next
    n_sim,           \* the local n_sim
    old_df_cbc,      \* the local old_df_cbc
    prev_df_cbc,     \* the old_df_cbc the last _check_convergence was given
    convergence,     \* the local convergence
    ais_times,       \* the local ais_times (the timing sample)
    markov,          \* the local markov (the cohort model)
    markov_results,  \* the local markov_results (the results summary)
    verdicts,        \* the verdict of every iteration run so far, in order
    ret,             \* what run_new returned
    \* ---- StrokeModel._hospitals and set_times
    centers,         \* self._hospitals: a list of hospital objects
    times,           \* the lookup the latest set_times call was given
    calls,           \* the number of set_times calls so far (capped)
    \* ---- Severity objects
    sev,             \* the severity objects, by object id
    lastCall,        \* the latest constructor or setter call and its outcome
    out              \* the latest break_up_ais_patients call and its result

runVars == <<pc, arg_n, inflated, c, n_sim, old_df_cbc, prev_df_cbc,
             convergence, ais_times, markov, markov_results, verdicts, ret>>
timeVars == <<centers, times, calls>>
sevVars == <<sev, lastCall, out>>
vars == <<runVars, timeVars, sevVars>>

(***************************************************************************)
(* Bounds of the model.                                                    *)
(***************************************************************************)
\* hospitals that may appear in counts_by_center
NHosp == 2
\* the caller's n
NArgs == {1000, 20000}
\* the share of the samples a hospital may get in one iteration, in units
\* of 1/200 (0.005): 0.200, 0.205 and 0.215, which differ by 0.005, by 0.01
\* and by 0.015
FreqSteps == {40, 41, 43}

RECURSIVE GCD(_, _)
GCD(a, b) == IF b = 0 THEN a ELSE GCD(b, a % b)

AbsInt(x) == IF x < 0 THEN -x ELSE x

(***************************************************************************)
(* StrokeModel._check_convergence                                          *)
(***************************************************************************)
CONVERGENCE_THRESH_DEN == 100   \* CONVERGENCE_THRESH = .01 = 1/100

HospKeys == 1..NHosp

\* "no table": old_df_cbc = None
NoneTable == [isNone |-> TRUE, den |-> 1, num |-> [h \in {} |-> 0]]

\* pd.DataFrame.from_dict(cbc, orient='index', columns=['count']) / n_sim:
\* every count over the one denominator n_sim
Normalize(counts, n) == [isNone |-> FALSE, den |-> n, num |-> counts]

NaN == [nan |-> TRUE, v |-> 0]
Num(x) == [nan |-> FALSE, v |-> x]

\* df_cbc - old_df_cbc: pandas aligns the two frames on the union of their
\* indices; a label missing from either side gives NaN.  The result is over
\* the denominator (df.den / g) * old.den, g the gcd of the denominators.
FrameSub(df, old) ==
    LET g == GCD(df.den, old.den)
        both == DOMAIN df.num \cap DOMAIN old.num
    IN  [den |-> (df.den \div g) * old.den,
         cell |-> [h \in DOMAIN df.num \cup DOMAIN old.num |->
                     IF h \in both
                     THEN Num(df.num[h] * (old.den \div g)
                              - old.num[h] * (df.den \div g))
                     ELSE NaN]]

\* .abs()
FrameAbs(f) ==
    [den |-> f.den,
     cell |-> [h \in DOMAIN f.cell |->
                 IF f.cell[h].nan THEN NaN ELSE Num(AbsInt(f.cell[h].v))]]

\* .max(): the largest cell that is not NaN; NaN when there is none
FrameMax(f) ==
    LET real == {h \in DOMAIN f.cell : ~f.cell[h].nan}
    IN  IF real = {} THEN NaN
        ELSE Num(CHOOSE m \in {f.cell[h].v : h \in real} :
                    \A h \in real : f.cell[h].v <= m)

\* line 75, a faulty variant: < in place of <=
LeqThreshStrict(x, den) == ~x.nan /\ x.v < den \div CONVERGENCE_THRESH_DEN
\* line 75: (x/den <= CONVERGENCE_THRESH).any(): false for NaN.  For
\* integers x and den, x * 100 <= den is x <= den \div 100.
LeqThresh(x, den) == ~x.nan /\ x.v <= den \div CONVERGENCE_THRESH_DEN

check_convergence(counts, n, old) ==
    LET df_cbc == Normalize(counts, n)
        d == FrameAbs(FrameSub(df_cbc, old))
    IN  [convergence |-> IF old.isNone THEN FALSE
                         ELSE LeqThresh(FrameMax(d), d.den),
         df_cbc |-> df_cbc]

(***************************************************************************)
(* StrokeModel.run_new                                                     *)
(***************************************************************************)
NRUN_MAX == 20
N_SIM_INIT == 5000
N_SIM_STEP == 1000

\* a local that is not bound yet
Unbound == [iter |-> -1, n |-> 0, counts |-> [h \in {} |-> 0]]

\* What one run of the pipeline can report as counts_by_center when n
\* samples are drawn: any set of hospitals, each with one of the shares of
\* FreqSteps.  n is a multiple of 200 in every iteration of run_new.
CountsFor(n) ==
    UNION {[K -> {(n \div 200) * s : s \in FreqSteps}] : K \in SUBSET HospKeys}

\* line 87, a faulty variant: one pass too many
LoopRunsOneMore(i) == i <= NRUN_MAX
\* line 87: for c in range(NRUN_MAX): the loop hands out c while c < NRUN_MAX
LoopRuns(i) == i < NRUN_MAX

\* line 98, a faulty variant: a step that does not grow
NextNSimFlat(n, i) == n + N_SIM_STEP
\* line 98: n_sim += 1000*(c+1)
NextNSim(n, i) == n + N_SIM_STEP * (i + 1)

\* lines 100-101, a faulty variant: the loop is never left early
BreaksNever(conv) == FALSE
\* lines 100-101: if convergence: break
Breaks(conv) == conv

RunInit ==
    /\ pc = "idle"
    /\ arg_n \in NArgs
    /\ inflated = 0
    /\ c = 0
    /\ n_sim = 0
    /\ old_df_cbc = NoneTable
    /\ prev_df_cbc = NoneTable
    /\ convergence = FALSE
    /\ ais_times = Unbound
    /\ markov = Unbound
    /\ markov_results = Unbound
    /\ verdicts = <<>>
    /\ ret = <<>>

\* lines 81-86: the call, up to the loop
Call ==
    /\ pc = "idle"
    /\ pc' = "loop"
    /\ inflated' = inflated + 1
    /\ convergence' = FALSE
    /\ n_sim' = N_SIM_INIT
    /\ old_df_cbc' = NoneTable
    /\ c' = 0
    /\ UNCHANGED <<arg_n, prev_df_cbc, ais_times, markov, markov_results,
                   verdicts, ret>>
    /\ UNCHANGED <<timeVars, sevVars>>

\* lines 87-103: one pass of the loop body
Iteration ==
    /\ pc = "loop"
    /\ LoopRuns(c)
    /\ \E counts \in CountsFor(n_sim) :
          LET r == check_convergence(counts, n_sim, old_df_cbc)
          IN  /\ ais_times' = [iter |-> c, n |-> n_sim, counts |-> [h \in {} |-> 0]]
              /\ markov' = [iter |-> c, n |-> n_sim, counts |-> counts]
              /\ markov_results' = [iter |-> c, n |-> n_sim, counts |-> counts]
              /\ convergence' = r.convergence
              /\ prev_df_cbc' = old_df_cbc
              /\ old_df_cbc' = r.df_cbc
              /\ n_sim' = NextNSim(n_sim, c)
              /\ verdicts' = Append(verdicts, r.convergence)
              /\ IF Breaks(r.convergence)
                 THEN pc' = "break" /\ c' = c
                 ELSE pc' = "loop" /\ c' = c + 1
    /\ UNCHANGED <<arg_n, inflated, ret>>
    /\ UNCHANGED <<timeVars, sevVars>>

\* line 104: the loop is left, by break or by exhaustion
Return ==
    /\ \/ pc = "break"
       \/ pc = "loop" /\ ~LoopRuns(c)
    /\ pc' = "done"
    /\ ret' = <<markov_results, markov, ais_times>>
    /\ UNCHANGED <<arg_n, inflated, c, n_sim, old_df_cbc, prev_df_cbc,
                   convergence, ais_times, markov, markov_results, verdicts>>
    /\ UNCHANGED <<timeVars, sevVars>>

(***************************************************************************)
(* StrokeModel.set_times and the views hospitals, primaries and            *)
(* comprehensives                                                          *)
(***************************************************************************)
\* hospitals in self._hospitals
NCenters == 2
\* set_times calls followed in one behaviour
MaxCalls == 2

CenterTypes == {"PRIMARY", "COMPREHENSIVE"}

Digit == <<"0", "1", "2", "3", "4", "5", "6", "7", "8", "9">>
DigitChars == {Digit[i] : i \in 1..10}
DigitValue(ch) == (CHOOSE i \in 1..10 : Digit[i] = ch) - 1

\* str(center.center_id) for an id >= 0: its decimal digits
RECURSIVE Str(_)
Str(n) == IF n < 10 THEN <<Digit[n + 1]>>
          ELSE Append(Str(n \div 10), Digit[(n % 10) + 1])

RECURSIVE ParseDigits(_, _)
ParseDigits(s, acc) ==
    IF s = <<>> THEN acc
    ELSE ParseDigits(Tail(s), acc * 10 + DigitValue(Head(s)))

\* The values a lookup holds: floats (NaN among them) and strings.
FloatVal(x) == [t |-> "float", f |-> x, s |-> <<>>]
StrVal(s) == [t |-> "str", f |-> NaN, s |-> s]
LookupValues ==
    {FloatVal(Num(30)), FloatVal(NaN),
     StrVal(<<"4", "5">>), StrVal(<<"N", "/", "A">>), StrVal(<<>>),
     StrVal(<<"n", "a", "n">>)}

\* float(v): a float is itself; a string of digits is its value and "nan"
\* is NaN; any other string raises ValueError.  (Of Python's float grammar
\* only unsigned digit strings and "nan" are modelled.)
Float(v) ==
    IF v.t = "float" THEN [err |-> "none", f |-> v.f]
    ELSE IF v.s = <<"n", "a", "n">> THEN [err |-> "none", f |-> NaN]
    ELSE IF v.s # <<>> /\ \A i \in 1..Len(v.s) : v.s[i] \in DigitChars
         THEN [err |-> "none", f |-> Num(ParseDigits(v.s, 0))]
    ELSE [err |-> "ValueError", f |-> NaN]

\* The lookups a set_times call may be given: any set of the hospitals'
\* keys, each with any of the values.
Lookups ==
    UNION {[K -> LookupValues] : K \in SUBSET {Str(i) : i \in 1..NCenters}}

\* lines 44-51, a faulty variant: the conversion is not guarded by try/except
center_time_NoExcept(center, lookup) ==
    LET center_id == Str(center.center_id)
    IN  IF center_id \in DOMAIN lookup
        THEN LET r == Float(lookup[center_id])
             IN  IF r.err = "none" THEN [err |-> "none", f |-> r.f]
                 ELSE [err |-> r.err, f |-> center.time]
        ELSE [err |-> "none", f |-> NaN]

\* lines 44-51: the body of the loop for one center: the time it is given,
\* or the exception that leaves the loop (only ValueError is caught)
center_time(center, lookup) ==
    LET center_id == Str(center.center_id)
    IN  IF center_id \in DOMAIN lookup
        THEN LET r == Float(lookup[center_id])
             IN  IF r.err = "none" THEN [err |-> "none", f |-> r.f]
                 ELSE IF r.err = "ValueError" THEN [err |-> "none", f |-> NaN]
                 ELSE [err |-> r.err, f |-> center.time]
        ELSE [err |-> "none", f |-> NaN]

\* line 43: for center in self._hospitals, from index i on; an exception
\* ends the loop with the centers before it updated
RECURSIVE set_times_from(_, _, _)
set_times_from(cs, i, lookup) ==
    IF i > Len(cs) THEN [centers |-> cs, err |-> "none"]
    ELSE LET r == center_time(cs[i], lookup)
         IN  IF r.err # "none" THEN [centers |-> cs, err |-> r.err]
             ELSE set_times_from([cs EXCEPT ![i].time = r.f], i + 1, lookup)

\* np.isnan(x.time)
isnan(x) == x.nan

\* the properties of lines 12-27
hospitals == SelectSeq(centers, LAMBDA x : ~isnan(x.time))
primaries == SelectSeq(hospitals, LAMBDA x : x.center_type = "PRIMARY")
comprehensives ==
    SelectSeq(hospitals, LAMBDA x : x.center_type = "COMPREHENSIVE")

\* __init__: the hospitals "may not have correct travel times set yet"
TimeInit ==
    /\ centers \in {cs \in [1..NCenters ->
                             [center_id : 1..NCenters, center_type : CenterTypes,
                              time : {NaN, Num(12)}]] :
                       \A i \in 1..NCenters : cs[i].center_id = i}
    /\ times = [err |-> "none", lookup |-> [k \in {} |-> NaN]]
    /\ calls = 0

SetTimes ==
    /\ calls < MaxCalls
    /\ \E lookup \in Lookups :
          LET r == set_times_from(centers, 1, lookup)
          IN  /\ centers' = r.centers
              /\ times' = [err |-> r.err, lookup |-> lookup]
    /\ calls' = calls + 1
    /\ UNCHANGED <<runVars, sevVars>>

(***************************************************************************)
(* Severity scores (src/stroke/severity.py).  A score is a fraction n/d in *)
(* lowest terms with d > 0.                                                *)
(***************************************************************************)
\* scores are tried on the grid of multiples of 1/ScoreDen
ScoreDen == 2
\* and up to ScoreMargin points beyond either end of the valid range
ScoreMargin == 1
RACE_MAX == 9
NIHSS_MAX == 42

Rat(n, d) == LET g == GCD(AbsInt(n), d) IN [n |-> n \div g, d |-> d \div g]
Whole(k) == [n |-> k, d |-> 1]
RatLt(a, b) == a.n * b.d < b.n * a.d
RatLeq(a, b) == a.n * b.d <= b.n * a.d

RaceInputs ==
    {Rat(k, ScoreDen) :
        k \in (-ScoreMargin * ScoreDen)..((RACE_MAX + ScoreMargin) * ScoreDen)}
NihssInputs ==
    {Rat(k, ScoreDen) :
        k \in (-ScoreMargin * ScoreDen)..((NIHSS_MAX + ScoreMargin) * ScoreDen)}

\* an object whose __init__ has stored nothing (yet)
Fresh(kind) == [kind |-> kind, has |-> FALSE, score |-> Whole(0), nihss |-> Whole(0)]

\* RACE._get_NIHSS, lines 160-169: 1 for score 0, else -0.39 + 2.39 * score
get_NIHSS(score) ==
    IF score.n = 0 THEN Whole(1)
    ELSE Rat(-39 * score.d + 239 * score.n, 100 * score.d)

\* RACE.score setter, lines 131-136, a faulty variant: the score is stored before it
\* is validated
score_setter_StoreFirst(obj, score) ==
    [obj |-> [obj EXCEPT !.has = TRUE, !.score = score,
                         !.nihss = get_NIHSS(score)],
     raised |-> IF RatLt(score, Whole(0)) \/ RatLt(Whole(RACE_MAX), score)
                THEN "ValueError" ELSE "none"]

\* RACE.score setter, lines 131-136
score_setter(obj, score) ==
    IF RatLt(score, Whole(0)) \/ RatLt(Whole(RACE_MAX), score)
    THEN [obj |-> obj, raised |-> "ValueError"]
    ELSE [obj |-> [obj EXCEPT !.has = TRUE, !.score = score,
                              !.nihss = get_NIHSS(score)],
          raised |-> "none"]

\* NIHSS._get_RACE_score, lines 178-184, a faulty variant: a RACE above 9 is clamped
\* to 9
get_RACE_score_Clamp9(score) ==
    LET race == IF RatLeq(score, Whole(1)) THEN Whole(0)
                ELSE Rat(100 * score.n + 39 * score.d, 239 * score.d)
    IN  IF RatLt(Whole(RACE_MAX), race) THEN Whole(RACE_MAX) ELSE race

\* NIHSS._get_RACE_score, lines 178-184: (score + 0.39) / 2.39
get_RACE_score(score) ==
    LET race == IF RatLeq(score, Whole(1)) THEN Whole(0)
                ELSE Rat(100 * score.n + 39 * score.d, 239 * score.d)
    IN  IF RatLt(Whole(RACE_MAX), race) THEN Whole(0) ELSE race

\* RACE.__init__, lines 138-139
RACE_init(score) == score_setter(Fresh("RACE"), score)

\* NIHSS.__init__, lines 172-176
NIHSS_init(score) ==
    IF RatLt(score, Whole(0)) \/ RatLt(Whole(NIHSS_MAX), score)
    THEN [obj |-> Fresh("NIHSS"), raised |-> "ValueError"]
    ELSE score_setter(Fresh("NIHSS"), get_RACE_score(score))

NoCall == [op |-> "none", arg |-> Whole(0), raised |-> "none"]

\* x = RACE(score)
NewRACE ==
    /\ \E score \in RaceInputs :
          LET r == RACE_init(score)
          IN  /\ sev' = r.obj
              /\ lastCall' = [op |-> "RACE", arg |-> score, raised |-> r.raised]
    /\ UNCHANGED <<out, runVars, timeVars>>

\* x = NIHSS(score)
NewNIHSS ==
    /\ \E score \in NihssInputs :
          LET r == NIHSS_init(score)
          IN  /\ sev' = r.obj
              /\ lastCall' = [op |-> "NIHSS", arg |-> score, raised |-> r.raised]
    /\ UNCHANGED <<out, runVars, timeVars>>

\* x.score = score, on an object a constructor has returned
SetScore ==
    /\ sev.has
    /\ \E score \in RaceInputs :
          LET r == score_setter(sev, score)
          IN  /\ sev' = r.obj
              /\ lastCall' = [op |-> "set", arg |-> score, raised |-> r.raised]
    /\ UNCHANGED <<out, runVars, timeVars>>

(***************************************************************************)
(* Severity.break_up_ais_patients, lines 81-117.                           *)
(*                                                                         *)
(* A good-outcome probability is k/PGrid.  A state probability is an       *)
(* integer count of units of 1/(PGrid * 10^12): the death probabilities    *)
(* have three decimals and the proportions nine.  Such a count does not    *)
(* fit TLC's 32-bit integers, so it is kept as a sequence of Limbs limbs   *)
(* in base Base, least significant first; after Carry every limb but the   *)
(* last lies in 0..Base-1 and the last carries the sign.                   *)
(***************************************************************************)
\* good-outcome probabilities are tried on the grid k/PGrid, k in 0..PGrid
PGrid == 4
\* the shape of p_good_outcome
SampleIdx == 1..2
HospIdx == 1..2

\* the representation: Limbs limbs in base Base
Base == 10000
Limbs == 5

RECURSIVE CarryFrom(_, _, _)
CarryFrom(L, i, carry) ==
    IF i = Limbs THEN [L EXCEPT ![i] = L[i] + carry]
    ELSE LET x == L[i] + carry
         IN  CarryFrom([L EXCEPT ![i] = x % Base], i + 1, x \div Base)
Carry(L) == CarryFrom(L, 1, 0)

Small(x) == Carry([i \in 1..Limbs |-> IF i = 1 THEN x ELSE 0])
BigScale(L, x) == Carry([i \in 1..Limbs |-> L[i] * x])
BigAdd(A, B) == Carry([i \in 1..Limbs |-> A[i] + B[i]])
BigNonNeg(A) == A[Limbs] >= 0

\* 0.hhhhhllll, in units of 10^-9
Dec9(h, l) == BigAdd(BigScale(Small(h), 10000), Small(l))
\* 10^9 and 10^12
E9 == BigScale(BigScale(Small(1), 100000), 10000)
E12 == BigScale(E9, 1000)

\* lines 101-104: the probability of death, in thousandths
p_death(nihss) ==
    IF RatLt(nihss, Whole(7)) THEN 42
    ELSE IF RatLt(nihss, Whole(13)) THEN 139
    ELSE IF RatLt(nihss, Whole(21)) THEN 316
    ELSE 535

\* lines 107-109 and 113-115: the proportions of mRS 0..2 and of mRS 3..5
Proportion(state) ==
    CASE state = 0 -> Dec9(20562, 7706)     \* 0.205627706
      [] state = 1 -> Dec9(34199, 1342)     \* 0.341991342
      [] state = 2 -> Dec9(45238, 952)      \* 0.452380952
      [] state = 3 -> Dec9(35678, 3920)     \* 0.35678392
      [] state = 4 -> Dec9(43216, 804)      \* 0.432160804
      [] state = 5 -> Dec9(21105, 5276)     \* 0.211055276

\* line 112, a faulty variant: the death probability is not taken off
p_bad_NoDeath(k, death) == 1000 * PGrid - 1000 * k
\* line 112: p_bad = 1 - p_good_outcome - P(death), in units of
\* 1/(1000 * PGrid), for p_good_outcome = k/PGrid and P(death) = death/1000
p_bad(k, death) == 1000 * PGrid - 1000 * k - death * PGrid

\* lines 96-115 for one cell: the seven state probabilities
cell_states(k, nihss) ==
    LET death == p_death(nihss)
    IN  [state \in 0..6 |->
            IF state = 6 THEN BigScale(E9, death * PGrid)
            ELSE IF state <= 2 THEN BigScale(Proportion(state), 1000 * k)
            ELSE BigScale(Proportion(state), p_bad(k, death))]

break_up_ais_patients(self, p_good_outcome) ==
    [cell \in DOMAIN p_good_outcome |->
        cell_states(p_good_outcome[cell], self.nihss)]

NoOut == [called |-> FALSE, nihss |-> Whole(0),
          p |-> [cell \in {} |-> 0], states |-> [cell \in {} |-> 0]]

\* states = severity.break_up_ais_patients(p_good_outcome), once in a
\* behaviour: the method reads self.NIHSS and writes nothing
BreakUp ==
    /\ sev.has
    /\ ~out.called
    /\ \E p \in [SampleIdx \X HospIdx -> 0..PGrid] :
          out' = [called |-> TRUE, nihss |-> sev.nihss, p |-> p,
                  states |-> break_up_ais_patients(sev, p)]
    /\ UNCHANGED <<sev, lastCall, runVars, timeVars>>

SevInit == sev = Fresh("none") /\ lastCall = NoCall /\ out = NoOut

\* every severity a constructor returns
Severities ==
    {r.obj : r \in {x \in {RACE_init(score) : score \in RaceInputs}
                        \cup {NIHSS_init(score) : score \in NihssInputs} :
                      x.raised = "none"}}

TimeIdle ==
    /\ centers = <<>>
    /\ times = [err |-> "none", lookup |-> [k \in {} |-> NaN]]
    /\ calls = 0
RunIdle == RunInit /\ arg_n = 1000

(***************************************************************************)
(* The specifications: one per component, the others at rest.              *)
(***************************************************************************)
InitRun == RunInit /\ TimeIdle /\ SevInit
NextRun == Call \/ Iteration \/ Return
SpecRun == InitRun /\ [][NextRun]_vars

InitTimes == TimeInit /\ RunIdle /\ SevInit
NextTimes == SetTimes
SpecTimes == InitTimes /\ [][NextTimes]_vars

InitSev == SevInit /\ RunIdle /\ TimeIdle
NextSev == NewRACE \/ NewNIHSS \/ SetScore
SpecSev == InitSev /\ [][NextSev]_vars

InitBreakUp ==
    /\ sev \in Severities
    /\ lastCall = NoCall
    /\ out = NoOut
    /\ RunIdle
    /\ TimeIdle
NextBreakUp == BreakUp
SpecBreakUp == InitBreakUp /\ [][NextBreakUp]_vars

(***************************************************************************)
(* Claims about StrokeModel.run_new and _check_convergence (SpecRun)       *)
(***************************************************************************)
Iterations == Len(verdicts)
NoVerdictTrue == \A i \in 1..Iterations : ~verdicts[i]

\* C1: run_new always terminates: whatever the verdicts, it runs at most 20
\* iterations and is never stuck before it returns; when no iteration
\* reports convergence it returns, without an error, the results of the
\* 20th iteration (index 19).
C1_TerminatesWithinCap ==
    /\ Iterations <= 20
    /\ pc # "done" => ENABLED NextRun
    /\ (pc = "done" /\ NoVerdictTrue) =>
          /\ Iterations = 20
          /\ ret = <<markov_results, markov, ais_times>>
          /\ \A j \in 1..3 : ret[j].iter = 19

C1_Witness ==
    /\ pc = "done"
    /\ Iterations = 20
    /\ NoVerdictTrue
    /\ ret[1].iter = 19

\* C2: run_new stops at the first iteration whose verdict is true and runs
\* no iteration after it; the three values it returns come from the one
\* iteration that ran last; the first verdict is always false, so run_new
\* never returns after fewer than two iterations.
C2_StopsAtFirstConvergence ==
    /\ \A i \in 1..(Iterations - 1) : ~verdicts[i]
    /\ Iterations >= 1 => ~verdicts[1]
    /\ (Iterations >= 1 /\ verdicts[Iterations]) => pc \in {"break", "done"}
    /\ pc = "done" =>
          /\ Iterations >= 2
          /\ \A j \in 1..3 : ret[j].iter = Iterations - 1
          /\ ret[1].counts = ret[2].counts
          /\ ret[3].n = ret[1].n

C2_Witness ==
    /\ pc = "done"
    /\ Iterations = 2
    /\ verdicts[2]
    /\ ret[1].iter = 1 /\ ret[2].iter = 1 /\ ret[3].iter = 1

\* |cur[h] - prev[h]| against 0.01, for tables whose denominators are
\* multiples of 1000: |a/(1000 b) - c/(1000 d)| <= 1/100 is
\* |a d - c b| <= 10 b d.
DiffTimes(cur, prev, h) ==
    AbsInt(cur.num[h] * (prev.den \div 1000) - prev.num[h] * (cur.den \div 1000))
TenBD(cur, prev) == 10 * (cur.den \div 1000) * (prev.den \div 1000)
Common(cur, prev) == DOMAIN cur.num \cap DOMAIN prev.num

C8_SampleSizes ==
    /\ pc # "idle" => n_sim = 5000 + 500 * Iterations * (Iterations + 1)
    /\ Iterations >= 1 =>
          LET i == Iterations - 1
          IN  /\ ais_times.iter = i
              /\ ais_times.n = 5000 + 500 * i * (i + 1)
              /\ old_df_cbc.den = ais_times.n
              /\ n_sim = ais_times.n + 1000 * (i + 1)
              /\ n_sim > ais_times.n
              /\ IF i = 0 THEN prev_df_cbc.isNone
                 ELSE /\ ~prev_df_cbc.isNone
                      /\ prev_df_cbc.den = 5000 + 500 * (i - 1) * i

C8_Witness ==
    /\ arg_n = 20000
    /\ Iterations = 4
    /\ ais_times.n = 11000
    /\ old_df_cbc.den = 11000
    /\ prev_df_cbc.den = 8000
    /\ n_sim = 15000

(***************************************************************************)
(* Claims about set_times and the views (SpecTimes)                        *)
(***************************************************************************)
Range(q) == {q[i] : i \in 1..Len(q)}
Valid == {centers[i] : i \in {j \in 1..Len(centers) : ~centers[j].time.nan}}
FailsConversion(v) == v.t = "str" /\ Float(v).err # "none"
KeyOf(i) == Str(centers[i].center_id)

Outside(x, lo, hi) == RatLt(x, Whole(lo)) \/ RatLt(Whole(hi), x)

C7_State ==
    /\ lastCall.raised \in {"none", "ValueError"}
    /\ lastCall.op = "RACE" =>
          /\ lastCall.raised = "ValueError" <=> Outside(lastCall.arg, 0, 9)
          /\ lastCall.raised = "ValueError" => ~sev.has
          /\ lastCall.raised = "none" => sev.has /\ sev.score = lastCall.arg
    /\ lastCall.op = "NIHSS" =>
          /\ lastCall.raised = "ValueError" <=> Outside(lastCall.arg, 0, 42)
          /\ lastCall.raised = "ValueError" => ~sev.has
          /\ lastCall.raised = "none" => sev.has
    /\ lastCall.op = "set" =>
          /\ lastCall.raised = "ValueError" <=> Outside(lastCall.arg, 0, 9)
          /\ lastCall.raised = "none" => sev.has /\ sev.score = lastCall.arg

C7_Step ==
    (lastCall'.op = "set" /\ lastCall'.raised = "ValueError") => sev' = sev

\* C7: RACE(score) with score outside [0,9] and NIHSS(score) with score
\* outside [0,42] raise ValueError and the object holds no score and no
\* NIHSS; every score inside the range is accepted; assigning a score
\* outside [0,9] to an existing severity raises ValueError and leaves its
\* score and NIHSS as they were.
C7_Validation == []C7_State /\ [][C7_Step]_vars

\* an out-of-range assignment to an existing RACE severity has just failed
C7_Witness ==
    /\ lastCall.op = "set"
    /\ lastCall.raised = "ValueError"
    /\ sev.kind = "RACE"
    /\ sev.has
    /\ sev.score = Whole(9)

\* C9: NIHSS(s) for s in [0,42] stores RACE 0 if s <= 1, else
\* (s + 0.39) / 2.39 unless that exceeds 9, and then 0; the stored RACE is
\* in [0,9] and the construction does not fail.
C9_RaceFromNIHSS ==
    (lastCall.op = "NIHSS" /\ ~Outside(lastCall.arg, 0, 42)) =>
        LET s == lastCall.arg
            r == sev.score
        IN  /\ lastCall.raised = "none"
            /\ sev.has
            /\ ~Outside(r, 0, 9)
            /\ IF s.n <= s.d THEN r.n = 0
               ELSE IF 100 * s.n + 39 * s.d <= 9 * 239 * s.d
                    THEN r.n * 239 * s.d = (100 * s.n + 39 * s.d) * r.d
                    ELSE r.n = 0

\* NIHSS(42): the RACE of about 17.7 is reset to 0
C9_Witness ==
    /\ lastCall.op = "NIHSS"
    /\ lastCall.arg = Whole(42)
    /\ lastCall.raised = "none"
    /\ sev.has
    /\ sev.score = Whole(0)

C10_Step ==
    (sev.has /\ sev'.has /\ RatLeq(sev.score, sev'.score)) =>
        RatLeq(sev.nihss, sev'.nihss)

\* C10: for all RACE scores r in [0,9] that the setter accepts, NIHSS(r) is
\* non-decreasing in r (of two severities in a row, by a constructor or by
\* an assignment to score, the one with the larger score has the larger or
\* the same NIHSS), and NIHSS(0) = 1.
C10_NIHSSNonDecreasing ==
    /\ [](sev.has /\ sev.score = Whole(0) => sev.nihss = Whole(1))
    /\ [][C10_Step]_vars

\* The same for the scores r = 0 and r >= 1.39/2.39, which include the
\* whole numbers of the RACE scale and every score NIHSS(s) derives: it
\* holds for these.
OnScale(x) == x.n = 0 \/ 239 * x.n >= 139 * x.d
C10_OnScaleStep ==
    (sev.has /\ sev'.has /\ OnScale(sev.score) /\ OnScale(sev'.score)
        /\ RatLeq(sev.score, sev'.score)) =>
        RatLeq(sev.nihss, sev'.nihss)
NIHSSNonDecreasingOnScale == [][C10_OnScaleStep]_vars

(***************************************************************************)
(* Claims about break_up_ais_patients (SpecBreakUp)                        *)
(***************************************************************************)
\* C4: for every valid severity and every good-outcome probability in
\* [0,1], each of the seven state probabilities is non-negative.
C4_StatesNonNegative ==
    out.called =>
        \A cell \in DOMAIN out.states :
            \A state \in 0..6 : BigNonNeg(out.states[cell][state])

\* P(death) in thousandths, by the band of NIHSS n/d
DeathBand(x) ==
    CASE x.n < 7 * x.d -> 42
      [] 7 * x.d <= x.n /\ x.n < 13 * x.d -> 139
      [] 13 * x.d <= x.n /\ x.n < 21 * x.d -> 316
      [] 21 * x.d <= x.n -> 535

\* C5: for every valid severity and every cell, the seven state
\* probabilities sum to 1: mRS 0..2 sum to p, mRS 3..5 sum to
\* 1 - p - P(death), and mRS 6 is P(death).
C5_StatesSumToOne ==
    out.called =>
        \A cell \in DOMAIN out.states :
            LET st == out.states[cell]
                k == out.p[cell]
                death == DeathBand(out.nihss)
                good == BigAdd(st[0], BigAdd(st[1], st[2]))
                bad == BigAdd(st[3], BigAdd(st[4], st[5]))
            IN  /\ good = BigScale(E12, k)
                /\ bad = BigScale(E9, 1000 * PGrid - 1000 * k - death * PGrid)
                /\ st[6] = BigScale(E9, death * PGrid)
                /\ BigAdd(good, BigAdd(bad, st[6])) = BigScale(E12, PGrid)

\* NIHSS 10 and p = 0.5 in every cell: P(death) = 0.139
C5_Witness ==
    /\ out.called
    /\ out.nihss = Whole(10)
    /\ \A cell \in DOMAIN out.states :
          /\ 2 * out.p[cell] = PGrid
          /\ out.states[cell][6] = BigScale(E9, 139 * PGrid)
          /\ BigNonNeg(out.states[cell][3])

====
